---- MODULE Spec2Model ----
(***************************************************************************)
(* Model of twtoolbox/helpers.py: the bulk runner (bulk_process with its   *)
(* checkpoint scan _get_latest_id) and the chunker (gen_chunks).           *)
(*                                                                         *)
(* Spec       : repeated bulk_process runs over one output directory.      *)
(* SpecChunks : one gen_chunks generator consumed to exhaustion.           *)
(***************************************************************************)
EXTENDS Integers, Sequences, FiniteSets, TLC

\* ------------------------------------------------------------------ bounds
MaxId == 2          \* record ids are 0..MaxId
MaxItems == 2       \* length of func_input
MaxRuns == 2        \* bulk_process invocations over the same directory
MaxLen == 2         \* length of one iterable given to gen_chunks
MaxSources == 2     \* number of iterables given to gen_chunks
MaxSize == 3        \* largest chunk size tried
MaxIds == 1         \* length of one identity list given to ensure_at_least_one

\* ------------------------------------------------------------ value spaces
DefaultSize == 10                   \* kwargs.get("size", 10)
Names == {"a", "b"}                 \* basenames; filename_tmpl % basename is injective
Ids == 0..MaxId
None == -1                          \* Python's None where an id is expected
Incomplete == -2                    \* a line json.loads / obj["id"] fails on
Lines == Ids \cup {Incomplete}

VARIABLES
    \* the filesystem
    dirExists,      \* path.exists(output_dir)
    fexists,        \* fexists[n]: path.exists(output_filename) for basename n
    fdata,          \* fdata[n]: the lines of that file
    \* one bulk_process invocation
    run,            \* invocations started so far
    pc,             \* position in bulk_process
    items,          \* func_input (basenames)
    resume,         \* the resume argument
    idx,            \* 1-based position of the for loop in items
    num_processed,
    latest_id,
    since,          \* since_id handed to function (None: argument absent)
    handles,        \* file handles currently open
    result,         \* value returned (None: nothing returned)
    \* history
    err,            \* last exception raised in this run
    log,            \* per item handled in this run: how it ended
    opens,          \* open() calls made in this run
    calls,          \* function(writer, **args) calls made in this run
    fromEmpty,      \* this run started with no output file present
    cur,            \* basename of the item last reached
    before,         \* the lines of its file when it was reached
    fresh,          \* its file did not exist when it was reached
    prev,           \* the previous invocation, for comparing two runs
    partial,        \* files a terminated process left partially written
    attempts,       \* attempts[n]: function calls for n made by runs without resume
    \* gen_chunks
    iterables, size, merged, pos, chunks, gpc,
    \* argument validation
    user_ids, screen_names,     \* arguments of ensure_at_least_one
    user_id, screen_name,       \* arguments of ensure_only_one
    ensured,                    \* how the last ensure_... call ended
    epc,                        \* position of the caller
    dirAtCall                   \* dirExists when the caller was entered

fsVars == <<dirExists, fexists, fdata>>
runVars == <<run, pc, items, resume, idx, num_processed, latest_id, since, handles, result>>
histVars == <<err, log, opens, calls, fromEmpty, attempts, cur, before, fresh, prev, partial>>
bulkVars == <<fsVars, runVars, histVars>>
chunkVars == <<iterables, size, merged, pos, chunks, gpc>>
argVars == <<user_ids, screen_names, user_id, screen_name, ensured, epc, dirAtCall>>
vars == <<bulkVars, chunkVars, argVars>>

\* --------------------------------------------------------------- sequences
RECURSIVE SeqsUpTo(_, _)
SeqsUpTo(S, n) ==
    IF n = 0 THEN {<<>>}
    ELSE LET shorter == SeqsUpTo(S, n - 1)
         IN shorter \cup {Append(s, x) : s \in {t \in shorter : Len(t) = n - 1}, x \in S}

Range(s) == {s[i] : i \in 1..Len(s)}

IsPrefix(p, s) == Len(p) <= Len(s) /\ \A i \in 1..Len(p) : p[i] = s[i]

\* ========================================================== _get_latest_id
\* obj = json.loads(line); obj["id"]: fails on a line that is no record.
Parses(line) == line \in Ids

\* one iteration of the for loop: lines 42-44
ScanLine(latest, line) ==
    IF latest = None \/ line > latest THEN line ELSE latest

RECURSIVE ScanFrom(_, _, _)
ScanFrom(lines, i, latest) ==
    IF i > Len(lines) THEN latest
    ELSE ScanFrom(lines, i + 1, ScanLine(latest, lines[i]))

\* the value returned when every line parses
GetLatestIdLast(lines) == IF Len(lines) = 0 THEN None ELSE lines[Len(lines)]
GetLatestId(lines) == ScanFrom(lines, 1, None)

\* whether the scan raises ValueError / KeyError
ScanRaises(lines) == \E i \in 1..Len(lines) : ~Parses(lines[i])

\* ============================================================ bulk_process
Running == {"mkdir", "loop", "scan", "scanning", "open", "work"}
Ended == {"idle", "returned", "aborted", "killed"}

ItemLists == SeqsUpTo(Names, MaxItems)

NoFiles == \A n \in Names : ~fexists[n]

Distinct(s) == \A i, j \in 1..Len(s) : i # j => s[i] # s[j]

AllOk(l) == \A i \in 1..Len(l) : l[i].out = "ok"

\* This run wrote every one of its distinct items afresh into an empty
\* directory, without a failure, and returned.
Clean == pc = "returned" /\ fromEmpty /\ ~resume /\ Distinct(items) /\ AllOk(log)

NoPrev == [clean |-> FALSE, items |-> <<>>, result |-> None,
           fexists |-> [n \in Names |-> FALSE], fdata |-> [n \in Names |-> <<>>]]

\* what the next invocation remembers of this one (of a clean one only)
Snapshot ==
    IF Clean
    THEN [clean |-> TRUE, items |-> items, result |-> result,
          fexists |-> fexists, fdata |-> fdata]
    ELSE NoPrev

\* a list argument: None, or a list of identities
NoneList == [none |-> TRUE, val |-> <<>>]
List(v) == [none |-> FALSE, val |-> v]
NoCall == [fn |-> "none", raised |-> FALSE, ret |-> <<>>]

\* no ensure_... call, no caller
ArgsUnused ==
    /\ user_ids = NoneList /\ screen_names = NoneList
    /\ user_id = None /\ screen_name = None
    /\ ensured = NoCall /\ epc = "unused" /\ dirAtCall = FALSE

\* no generator exists
ChunksUnused ==
    /\ iterables = <<>> /\ size = 1 /\ merged = <<>> /\ pos = 1 /\ chunks = <<>>
    /\ gpc = "unused"

Init ==
    /\ dirExists \in BOOLEAN
    /\ fexists = [n \in Names |-> FALSE]
    /\ fdata = [n \in Names |-> <<>>]
    /\ run = 0 /\ pc = "idle" /\ items = <<>> /\ resume = FALSE /\ idx = 1
    /\ num_processed = 0 /\ latest_id = None /\ since = None
    /\ handles = {} /\ result = None
    /\ err = "none" /\ log = <<>> /\ opens = 0 /\ calls = 0 /\ fromEmpty = TRUE
    /\ cur = "a" /\ before = <<>> /\ fresh = TRUE /\ partial = {}
    /\ prev = NoPrev
    /\ attempts = [n \in Names |-> 0]
    /\ ChunksUnused
    /\ ArgsUnused

\* bulk_process(logger, output_dir, filename_tmpl, function, func_input, var_arg, resume)
\* is called, in a fresh process or after an earlier call ended.
StartRun(its, r) ==
    /\ pc \in Ended
    /\ run < MaxRuns
    /\ run' = run + 1
    /\ prev' = Snapshot
    /\ items' = its /\ resume' = r
    /\ idx' = 1 /\ num_processed' = 0 /\ latest_id' = None /\ since' = None
    /\ handles' = {} /\ result' = None
    /\ err' = "none" /\ log' = <<>> /\ opens' = 0 /\ calls' = 0
    /\ fromEmpty' = NoFiles
    /\ cur' = "a" /\ before' = <<>> /\ fresh' = TRUE
    /\ pc' = "mkdir"
    /\ UNCHANGED <<fsVars, partial, attempts, chunkVars>>

Start(its, r) == StartRun(its, r) /\ UNCHANGED argVars

\* how the item last reached ended
Entry(out) == [name |-> cur, out |-> out, fresh |-> fresh]

\* except TweepError: (line 135)
CaughtAll(e) == TRUE
CaughtNone(e) == FALSE
Caught(e) == e = "TweepError"

\* An exception e leaves the statement at pc; inTry: the statement is inside
\* the try block of lines 126-136.
Raise(e, inTry) ==
    /\ err' = e
    /\ IF inTry /\ Caught(e)
       THEN /\ log' = Append(log, Entry(e))
            /\ idx' = idx + 1
            /\ pc' = "loop"
       ELSE /\ pc' = "aborted"
            /\ UNCHANGED <<log, idx>>

\* lines 110-113: create the output directory when it is missing
MakeDirs ==
    /\ pc = "mkdir"
    /\ ~dirExists
    /\ \/ /\ dirExists' = TRUE
          /\ pc' = "loop"
          /\ UNCHANGED <<err, log, idx>>
       \/ /\ Raise("OSError", FALSE)
          /\ UNCHANGED dirExists
    /\ num_processed' = 0
    /\ UNCHANGED <<fexists, fdata, run, items, resume, latest_id, since, handles, result,
                   opens, calls, fromEmpty, attempts, cur, before, fresh, prev, partial, chunkVars, argVars>>

DirPresent ==
    /\ pc = "mkdir"
    /\ dirExists
    /\ pc' = "loop"
    /\ num_processed' = 0
    /\ UNCHANGED <<fsVars, run, items, resume, idx, latest_id, since, handles, result,
                   histVars, chunkVars, argVars>>

\* line 137: the for loop is exhausted
Return ==
    /\ pc = "loop"
    /\ idx > Len(items)
    /\ pc' = "returned"
    /\ result' = num_processed
    /\ UNCHANGED <<fsVars, run, items, resume, idx, num_processed, latest_id, since, handles,
                   histVars, chunkVars, argVars>>

\* lines 119-122: an existing file is skipped if not resume
SkipExistingInverted(r) == r
SkipExisting(r) == ~r

\* lines 114-122: the next item, whose file exists and resume is off: skipped
SkipItem ==
    /\ pc = "loop"
    /\ idx <= Len(items)
    /\ fexists[items[idx]] /\ SkipExisting(resume)
    /\ cur' = items[idx] /\ before' = fdata[items[idx]] /\ fresh' = FALSE
    /\ latest_id' = None
    /\ log' = Append(log, [name |-> items[idx], out |-> "skip", fresh |-> FALSE])
    /\ idx' = idx + 1
    /\ UNCHANGED <<fsVars, run, pc, items, resume, num_processed, since, handles, result,
                   err, opens, calls, fromEmpty, attempts, prev, partial, chunkVars, argVars>>

\* lines 114-123: the next item, to be resumed (its file is scanned first)
\* or written afresh
ReachItem ==
    /\ pc = "loop"
    /\ idx <= Len(items)
    /\ ~(fexists[items[idx]] /\ SkipExisting(resume))
    /\ cur' = items[idx] /\ before' = fdata[items[idx]] /\ fresh' = ~fexists[items[idx]]
    /\ latest_id' = None
    /\ pc' = IF fexists[items[idx]] THEN "scan" ELSE "open"
    /\ UNCHANGED <<fsVars, run, items, resume, idx, num_processed, since, handles, result,
                   err, log, opens, calls, fromEmpty, attempts, prev, partial, chunkVars, argVars>>

\* A handle is the kind of file object and the loop position it was opened at.
\* with open(...) as f: the handle is closed when the block is left, by its
\* end or by an exception
CloseLeaks(hs, h) == hs
CloseOnExit(hs, h) == hs \ {h}

\* line 40: with open(filename) as reader
ScanOpen ==
    /\ pc = "scan"
    /\ \/ /\ handles' = handles \cup {<<"reader", idx>>}
          /\ opens' = opens + 1
          /\ pc' = "scanning"
          /\ UNCHANGED <<err, log, idx>>
       \/ /\ Raise("IOError", FALSE)
          /\ UNCHANGED <<handles, opens>>
    /\ UNCHANGED <<fsVars, run, items, resume, num_processed, latest_id, since, result,
                   calls, fromEmpty, attempts, cur, before, fresh, prev, partial, chunkVars, argVars>>

\* lines 41-45: the scan itself; the with statement closes the reader either way
ScanFile ==
    /\ pc = "scanning"
    /\ handles' = CloseOnExit(handles, <<"reader", idx>>)
    /\ IF ScanRaises(fdata[cur])
       THEN /\ Raise("ValueError", FALSE)
            /\ UNCHANGED latest_id
       ELSE /\ latest_id' = GetLatestId(fdata[cur])
            /\ pc' = "open"
            /\ UNCHANGED <<err, log, idx>>
    /\ UNCHANGED <<fsVars, run, items, resume, num_processed, since, result,
                   opens, calls, fromEmpty, attempts, cur, before, fresh, prev, partial, chunkVars, argVars>>

\* lines 129-130: since_id is passed when latest_id is not None
SinceIdArgTruthy(latest) == IF latest # None /\ latest # 0 THEN latest ELSE None
SinceIdArg(latest) == IF latest # None THEN latest ELSE None

\* line 132: "a" if resume else "w"
OpenModeAlwaysW(r) == "w"
OpenMode(r) == IF r THEN "a" ELSE "w"

\* open(output_filename, mode): the file exists afterwards; "w" truncates it
OpenedExistsLazy(was) == was
OpenedExists(was) == TRUE
OpenedData(lines, mode) == IF mode = "w" THEN <<>> ELSE lines

\* lines 128-132: build args, open the writer, enter function(writer, **args)
OpenWriter ==
    /\ pc = "open"
    /\ since' = SinceIdArg(latest_id)
    /\ \/ /\ handles' = handles \cup {<<"writer", idx>>}
          /\ opens' = opens + 1
          /\ calls' = calls + 1
          /\ attempts' = IF resume THEN attempts ELSE [attempts EXCEPT ![cur] = @ + 1]
          /\ fexists' = [fexists EXCEPT ![cur] = OpenedExists(fexists[cur])]
          /\ fdata' = [fdata EXCEPT ![cur] = OpenedData(fdata[cur], OpenMode(resume))]
          /\ pc' = "work"
          /\ UNCHANGED <<err, log, idx>>
       \/ /\ Raise("IOError", TRUE)
          /\ UNCHANGED <<handles, opens, calls, attempts, fexists, fdata>>
    /\ UNCHANGED <<dirExists, run, items, resume, num_processed, latest_id, result,
                   fromEmpty, cur, before, fresh, prev, partial, chunkVars, argVars>>

\* the lines function has written through this writer
Written == SubSeq(fdata[cur], Len(OpenedData(before, OpenMode(resume))) + 1, Len(fdata[cur]))

\* The remote operation's contract: records strictly newer than since_id, each
\* once per call.
MayWrite(id) ==
    /\ since = None \/ id > since
    /\ id \notin Range(Written)

\* line 133: function writes one more record to the writer
FunctionWrite(id) ==
    /\ pc = "work"
    /\ MayWrite(id)
    /\ fdata' = [fdata EXCEPT ![cur] = Append(@, id)]
    /\ fexists' = [fexists EXCEPT ![cur] = TRUE]
    /\ UNCHANGED <<dirExists, runVars, histVars, chunkVars, argVars>>

\* lines 133-134: function returns; the with statement closes the writer
FunctionReturn ==
    /\ pc = "work"
    /\ handles' = CloseOnExit(handles, <<"writer", idx>>)
    /\ num_processed' = num_processed + 1
    /\ log' = Append(log, Entry("ok"))
    /\ idx' = idx + 1
    /\ pc' = "loop"
    /\ partial' = partial \ {cur}
    /\ UNCHANGED <<fsVars, run, items, resume, latest_id, since, result,
                   err, opens, calls, fromEmpty, attempts, cur, before, fresh, prev, chunkVars, argVars>>

\* lines 133-136: function raises; the with statement closes the writer
FunctionRaises(e) ==
    /\ pc = "work"
    /\ handles' = CloseOnExit(handles, <<"writer", idx>>)
    /\ Raise(e, TRUE)
    /\ UNCHANGED <<fsVars, run, items, resume, num_processed, latest_id, since, result,
                   opens, calls, fromEmpty, attempts, cur, before, fresh, prev, partial, chunkVars, argVars>>

\* The process is terminated while function is writing: what reached the file
\* stays, possibly ending in a cut-off line.
Terminate(cut) ==
    /\ pc = "work"
    /\ pc' = "killed"
    /\ handles' = {}
    /\ partial' = partial \cup {cur}
    /\ fdata' = [fdata EXCEPT ![cur] = IF cut THEN Append(@, Incomplete) ELSE @]
    /\ UNCHANGED <<dirExists, fexists, run, items, resume, idx, num_processed, latest_id,
                   since, result, err, log, opens, calls, fromEmpty, attempts, cur, before, fresh,
                   prev, chunkVars, argVars>>

Next ==
    \/ \E its \in ItemLists, r \in BOOLEAN : Start(its, r)
    \/ MakeDirs
    \/ DirPresent
    \/ Return
    \/ SkipItem
    \/ ReachItem
    \/ ScanOpen
    \/ ScanFile
    \/ OpenWriter
    \/ \E id \in Ids : FunctionWrite(id)
    \/ FunctionReturn
    \/ \E e \in {"TweepError", "IOError"} : FunctionRaises(e)
    \/ \E cut \in BOOLEAN : Terminate(cut)

Spec == Init /\ [][Next]_vars

\* ============================================================== gen_chunks
Elements == {"x", "None"}           \* "None": an input element that is None
Pad == <<>>                         \* zip_longest's fill value (None)
Sources == SeqsUpTo(Elements, MaxLen)
IterableTuples == SeqsUpTo(Sources, MaxSources)
Sizes == (-1..MaxSize) \cup {DefaultSize}

RECURSIVE Flatten(_)
Flatten(ss) == IF ss = <<>> THEN <<>> ELSE Head(ss) \o Flatten(Tail(ss))

\* line 102: every element tagged with the 0-based index of its iterable,
\* iterable after iterable
Tag(its, i) == [k \in 1..Len(its[i]) |-> <<i - 1, its[i][k]>>]
Merge(its) == Flatten([i \in 1..Len(its) |-> Tag(its, i)])

\* line 103: zip_longest over size references to one iterator has another
\* tuple as long as the iterator is not exhausted at the start of a round
HasNextZip(m, p, sz) == sz >= 1 /\ p + sz - 1 <= Len(m)
HasNextOnceMore(m, p, sz) == sz >= 1 /\ p <= Len(m) + 1
HasNext(m, p, sz) == sz >= 1 /\ p <= Len(m)

\* the tuple of that round: the next sz elements, filled up with None
Window(m, p, sz) == [k \in 1..sz |-> IF p + k - 1 <= Len(m) THEN m[p + k - 1] ELSE Pad]

\* lines 104-105: the elements of chunk with tag idx, without the tag
ComponentAnyTag(chunk, tag) ==
    LET keep == SelectSeq(chunk, LAMBDA el : el # Pad)
    IN [k \in 1..Len(keep) |-> keep[k][2]]
ComponentDropsNone(chunk, tag) ==
    LET keep == SelectSeq(chunk, LAMBDA el : el # Pad /\ el[2] # "None" /\ el[1] = tag)
    IN [k \in 1..Len(keep) |-> keep[k][2]]
Component(chunk, tag) ==
    LET keep == SelectSeq(chunk, LAMBDA el : el # Pad /\ el[1] = tag)
    IN [k \in 1..Len(keep) |-> keep[k][2]]

\* line 106: tuple(components), one per iterable
Components(chunk, n) == [i \in 1..n |-> Component(chunk, i - 1)]

BulkUnused ==
    /\ dirExists = FALSE
    /\ fexists = [n \in Names |-> FALSE]
    /\ fdata = [n \in Names |-> <<>>]
    /\ run = 0 /\ pc = "idle" /\ items = <<>> /\ resume = FALSE /\ idx = 1
    /\ num_processed = 0 /\ latest_id = None /\ since = None
    /\ handles = {} /\ result = None
    /\ err = "none" /\ log = <<>> /\ opens = 0 /\ calls = 0 /\ fromEmpty = TRUE
    /\ cur = "a" /\ before = <<>> /\ fresh = TRUE /\ partial = {}
    /\ prev = NoPrev
    /\ attempts = [n \in Names |-> 0]

\* gen_chunks(*iterables, size=size) is called: a generator, nothing has run
InitChunks ==
    /\ BulkUnused
    /\ ArgsUnused
    /\ iterables \in IterableTuples
    /\ size \in Sizes
    /\ merged = <<>> /\ pos = 1 /\ chunks = <<>>
    /\ gpc = "created"

\* the first next(): lines 101-102
GenStart ==
    /\ gpc = "created"
    /\ merged' = Merge(iterables)
    /\ gpc' = "iterating"
    /\ UNCHANGED <<iterables, size, pos, chunks, bulkVars, argVars>>

\* lines 103-106: one more chunk is yielded
YieldChunk ==
    /\ gpc = "iterating"
    /\ HasNext(merged, pos, size)
    /\ chunks' = Append(chunks, Components(Window(merged, pos, size), Len(iterables)))
    /\ pos' = pos + size
    /\ UNCHANGED <<iterables, size, merged, gpc, bulkVars, argVars>>

\* line 103: zip_longest is exhausted, the generator ends
Exhaust ==
    /\ gpc = "iterating"
    /\ ~HasNext(merged, pos, size)
    /\ gpc' = "exhausted"
    /\ UNCHANGED <<iterables, size, merged, pos, chunks, bulkVars, argVars>>

NextChunks == GenStart \/ YieldChunk \/ Exhaust

SpecChunks == InitChunks /\ [][NextChunks]_vars

\* ====================================== ensure_at_least_one, ensure_only_one
ListArgs == {NoneList} \cup {List(v) : v \in SeqsUpTo(Names, MaxIds)}
ScalarArgs == {None, 0, 1}          \* None, a falsy value, a truthy value

\* lines 84-87: None becomes []
OrEmpty(l) == IF l.none THEN List(<<>>) ELSE l

\* line 88: not user_ids and not screen_names (after the defaults)
AtLeastOneRaisesOnlyNone(u, s) == u.none /\ s.none
AtLeastOneRaisesEither(u, s) == OrEmpty(u).val = <<>> \/ OrEmpty(s).val = <<>>
AtLeastOneRaises(u, s) == OrEmpty(u).val = <<>> /\ OrEmpty(s).val = <<>>

\* ensure_at_least_one(user_ids, screen_names)
EnsureAtLeastOne(u, s) ==
    IF AtLeastOneRaises(u, s)
    THEN [fn |-> "ensure_at_least_one", raised |-> TRUE, ret |-> <<>>]
    ELSE [fn |-> "ensure_at_least_one", raised |-> FALSE, ret |-> <<OrEmpty(u), OrEmpty(s)>>]

\* lines 94-95: neither or both is not None
OnlyOneRaisesTruthy(a, b) == (a \in {None, 0}) = (b \in {None, 0})
OnlyOneRaises(a, b) == (a = None /\ b = None) \/ (a # None /\ b # None)

\* ensure_only_one(user_id, screen_name)
EnsureOnlyOne(a, b) ==
    IF OnlyOneRaises(a, b)
    THEN [fn |-> "ensure_only_one", raised |-> TRUE, ret |-> <<>>]
    ELSE [fn |-> "ensure_only_one", raised |-> FALSE, ret |-> <<a, b>>]

\* ---- the two functions on their own: SpecEnsure
InitEnsure ==
    /\ BulkUnused
    /\ ChunksUnused
    /\ user_ids \in ListArgs /\ screen_names \in ListArgs
    /\ user_id \in ScalarArgs /\ screen_name \in ScalarArgs
    /\ ensured = NoCall /\ epc = "idle" /\ dirAtCall = FALSE

CallEnsureAtLeastOne ==
    /\ epc = "idle"
    /\ ensured' = EnsureAtLeastOne(user_ids, screen_names)
    /\ epc' = "done"
    /\ UNCHANGED <<user_ids, screen_names, user_id, screen_name, dirAtCall, bulkVars, chunkVars>>

CallEnsureOnlyOne ==
    /\ epc = "idle"
    /\ ensured' = EnsureOnlyOne(user_id, screen_name)
    /\ epc' = "done"
    /\ UNCHANGED <<user_ids, screen_names, user_id, screen_name, dirAtCall, bulkVars, chunkVars>>

NextEnsure == CallEnsureAtLeastOne \/ CallEnsureOnlyOne

SpecEnsure == InitEnsure /\ [][NextEnsure]_vars

\* ---- a bulk entry point: validates its identities, then runs bulk_process
\* over them: SpecEntry
InitEntry ==
    /\ dirExists \in BOOLEAN
    /\ fexists = [n \in Names |-> FALSE]
    /\ fdata = [n \in Names |-> <<>>]
    /\ run = 0 /\ pc = "idle" /\ items = <<>> /\ resume = FALSE /\ idx = 1
    /\ num_processed = 0 /\ latest_id = None /\ since = None
    /\ handles = {} /\ result = None
    /\ err = "none" /\ log = <<>> /\ opens = 0 /\ calls = 0 /\ fromEmpty = TRUE
    /\ cur = "a" /\ before = <<>> /\ fresh = TRUE /\ partial = {}
    /\ prev = NoPrev
    /\ attempts = [n \in Names |-> 0]
    /\ ChunksUnused
    /\ user_ids \in ListArgs /\ screen_names \in ListArgs
    /\ user_id = None /\ screen_name = None
    /\ ensured = NoCall /\ epc = "called" /\ dirAtCall = dirExists

\* the entry point's first statement: ensure_at_least_one
EntryValidate ==
    /\ epc = "called"
    /\ ensured' = EnsureAtLeastOne(user_ids, screen_names)
    /\ epc' = IF ensured'.raised THEN "config_error" ELSE "validated"
    /\ UNCHANGED <<user_ids, screen_names, user_id, screen_name, dirAtCall, bulkVars, chunkVars>>

\* then bulk_process over one item per identity
EntryBulk(r) ==
    /\ epc = "validated"
    /\ StartRun(ensured.ret[1].val \o ensured.ret[2].val, r)
    /\ epc' = "running"
    /\ UNCHANGED <<user_ids, screen_names, user_id, screen_name, ensured, dirAtCall>>

NextEntry ==
    \/ EntryValidate
    \/ \E r \in BOOLEAN : EntryBulk(r)
    \/ MakeDirs
    \/ DirPresent
    \/ Return
    \/ SkipItem
    \/ ReachItem
    \/ ScanOpen
    \/ ScanFile
    \/ OpenWriter
    \/ \E id \in Ids : FunctionWrite(id)
    \/ FunctionReturn
    \/ \E e \in {"TweepError", "IOError"} : FunctionRaises(e)
    \/ \E cut \in BOOLEAN : Terminate(cut)

SpecEntry == InitEntry /\ [][NextEntry]_vars

\* ---- argument validation, claims

ZeroIdentities ==
    /\ user_ids.none \/ user_ids.val = <<>>
    /\ screen_names.none \/ screen_names.val = <<>>

\* C12: with no identity at all (each list None or empty) the entry point ends
\* in the configuration error with the output directory as it was, no file
\* opened and bulk_process never entered.
C12_NoIOBeforeConfigError ==
    ZeroIdentities =>
        /\ epc \in {"called", "config_error"}
        /\ epc = "config_error" => ensured.raised
        /\ dirExists = dirAtCall
        /\ NoFiles /\ opens = 0 /\ run = 0 /\ pc = "idle"

\* the error was raised for one list None and the other empty, no directory
C12_Witness ==
    /\ epc = "config_error"
    /\ user_ids.none /\ ~screen_names.none /\ screen_names.val = <<>>
    /\ ~dirExists

\* C13: ensure_only_one raises exactly when neither or both arguments are
\* given (not None) and otherwise returns them unchanged; ensure_at_least_one
\* raises exactly when each list is None or empty and otherwise returns the
\* lists, None replaced by the empty list.
C13_EnsureContracts ==
    /\ ensured.fn = "ensure_only_one" =>
        /\ ensured.raised <=> ((user_id = None) <=> (screen_name = None))
        /\ ~ensured.raised => ensured.ret = <<user_id, screen_name>>
    /\ ensured.fn = "ensure_at_least_one" =>
        /\ ensured.raised <=> ZeroIdentities
        /\ ~ensured.raised =>
            /\ Len(ensured.ret) = 2
            /\ \A i \in 1..2 :
                LET arg == <<user_ids, screen_names>>[i]
                IN /\ ~ensured.ret[i].none
                   /\ ensured.ret[i].val = IF arg.none THEN <<>> ELSE arg.val

\* ensure_only_one has accepted a falsy user_id with no screen_name
C13_Witness ==
    /\ ensured.fn = "ensure_only_one" /\ ~ensured.raised
    /\ user_id = 0 /\ screen_name = None

\* ================================================================== claims

\* ---- bulk_process, under Spec

Succeeded(l) == Cardinality({i \in 1..Len(l) : l[i].out = "ok"})

\* C1: a TweepError raised by function never aborts the run: the run is never
\* left with TweepError as the exception that ended it, and a run that returns
\* has handled every item, in order, and returns the number of items whose
\* function call returned without error.
C1_TweepErrorIsolated ==
    /\ err = "TweepError" => pc # "aborted"
    /\ pc = "returned" =>
        /\ Len(log) = Len(items)
        /\ \A i \in 1..Len(log) : log[i].name = items[i]
        /\ result = Succeeded(log)

\* a returned run in which a failed item was followed by a successful one
C1_Witness ==
    /\ pc = "returned"
    /\ \E i \in 1..Len(log) - 1 : log[i].out = "TweepError" /\ log[i + 1].out = "ok"
    /\ result = 1

\* C2 (as stated): after a run, the file of an item that failed with
\* TweepError and did not exist when the item was reached is absent.
C2_FailedFreshAbsent ==
    pc = "returned" =>
        \A i \in 1..Len(log) :
            (log[i].out = "TweepError" /\ log[i].fresh) => ~fexists[log[i].name]

\* C2 (amended): after a run, the file of an item that failed with TweepError
\* and did not exist when the item was reached exists (open created it before
\* function was called).
C2_FailedFreshExists ==
    pc = "returned" =>
        \A i \in 1..Len(log) :
            (log[i].out = "TweepError" /\ log[i].fresh) => fexists[log[i].name]

\* a returned run with an item that failed on a fresh file before any write
C2_Witness ==
    /\ pc = "returned"
    /\ \E i \in 1..Len(log) :
        log[i].out = "TweepError" /\ log[i].fresh /\ fdata[log[i].name] = <<>>

\* C3: a run without resume over N distinct items into an empty directory, all
\* successful, creates N files and returns N; the same run again calls
\* function never, opens no file, leaves every file as it was and returns 0.
C3_SecondRunSkips ==
    /\ Clean =>
        /\ result = Len(items)
        /\ Cardinality({n \in Names : fexists[n]}) = Len(items)
    /\ (prev.clean /\ ~resume /\ items = prev.items) =>
        /\ calls = 0
        /\ opens = 0
        /\ fexists = prev.fexists
        /\ fdata = prev.fdata
        /\ pc = "returned" => result = 0

\* the second of two such runs over two items has returned
C3_Witness ==
    /\ prev.clean /\ ~resume /\ items = prev.items
    /\ Len(items) = 2 /\ prev.result = 2
    /\ \E n \in Names : fdata[n] # <<>>
    /\ pc = "returned"

MaxOf(S) == CHOOSE m \in S : \A x \in S : x <= m

\* function has been called for the item last reached
Invoked ==
    \/ pc \in {"work", "killed"}
    \/ /\ pc \in {"loop", "returned"}
       /\ log # <<>>
       /\ log[Len(log)].out \in {"ok", "TweepError"}

\* C4: with resume, for an item whose file held records when it was reached,
\* since_id is the largest id among them, whatever their order, and the file
\* keeps them, in place, before anything function writes.
C4_CheckpointIsMax ==
    (resume /\ Invoked /\ before # <<>>) =>
        /\ since = MaxOf(Range(before))
        /\ IsPrefix(before, fdata[cur])

\* a resumed item whose file held its largest id first, and was appended to
C4_Witness ==
    /\ resume /\ pc = "loop" /\ Invoked
    /\ Len(before) >= 2 /\ before[1] > before[Len(before)]
    /\ Len(fdata[cur]) > Len(before)

RecordIds(lines) == SelectSeq(lines, Parses)

\* C5: with a function that writes only ids above since_id, each once per
\* call, no file ever holds two records with the same id.
C5_NoDuplicateIds == \A n \in Names : Distinct(RecordIds(fdata[n]))

\* a resumed call, after a terminated run, has appended below a checkpoint
C5_Witness ==
    /\ resume /\ pc = "work" /\ since # None
    /\ cur \in partial
    /\ Written # <<>>

\* C6 (as stated): a resumed run that reaches a file an earlier, terminated run
\* left partially written is not aborted by what that file holds.
C6_PartialFileTolerated ==
    (resume /\ cur \in partial /\ pc = "aborted") => err # "ValueError"

\* C7 (as stated): a line of an existing file that does not parse fails its
\* item only: the run is not aborted by it.
C7_MalformedLineItemLocal == err = "ValueError" => pc \in (Running \cup {"returned", "killed"})

\* C8: an exception other than TweepError propagates: the run is aborted, no
\* further item is handled and nothing is returned.
C8_OtherErrorsPropagate ==
    err \notin {"none", "TweepError"} =>
        /\ pc = "aborted"
        /\ result = None

\* function raised IOError on the first of two items, after a write
C8_Witness ==
    /\ pc = "aborted" /\ err = "IOError"
    /\ calls = 1 /\ idx = 1 /\ Len(items) = 2
    /\ fdata[cur] # <<>>

\* C14 (as stated): function is given since_id exactly when resume is on and
\* the item's file existed when the item was reached.
C14_CheckpointIffExisted ==
    Invoked => ((since # None) <=> (resume /\ ~fresh))

\* C14 (amended): function is given since_id exactly when resume is on and the
\* item's file existed and held a record when the item was reached; since_id
\* is then the largest id in it; for a file that did not exist there is none.
C14_CheckpointIffRecords ==
    Invoked =>
        /\ (since # None) <=> (resume /\ ~fresh /\ before # <<>>)
        /\ since # None => since = MaxOf(Range(before))
        /\ fresh => since = None

\* function is running on a file whose only record has id 0, with since_id 0
C14_Witness ==
    /\ pc = "work" /\ resume /\ ~fresh
    /\ before = <<0>> /\ since = 0

\* C15: no step removes or changes a line a file holds: a file only grows at
\* its end, only the file of the item being processed changes, never an
\* existing file when resume is off, and a file opened in mode "w" did not
\* exist.
C15_ExistingRecordsKept ==
    [][/\ \A n \in Names :
            /\ IsPrefix(fdata[n], fdata'[n])
            /\ fexists[n] => fexists'[n]
            /\ fdata'[n] # fdata[n] => (n = cur /\ pc = "work" /\ (resume \/ fresh))
       /\ (pc = "open" /\ pc' = "work" /\ OpenMode(resume) = "w") => ~fexists[cur]
      ]_vars

\* in a first run with resume, an identity given twice is being appended to
C15_Witness ==
    /\ run = 1 /\ resume /\ pc = "work" /\ idx = 2
    /\ ~fresh /\ before # <<>>
    /\ Len(fdata[cur]) > Len(before)

\* C16: function is called at most once per identity by runs without resume,
\* whatever became of that call: from then on the identity's file exists.
C16_AtMostOneAttempt ==
    \A n \in Names :
        /\ attempts[n] <= 1
        /\ attempts[n] = 1 => fexists[n]

\* a second run without resume has skipped an identity whose only attempt, in
\* the first run, wrote nothing
C16_Witness ==
    /\ run = 2 /\ ~resume /\ pc = "returned"
    /\ \E i \in 1..Len(log) :
        /\ log[i].out = "skip"
        /\ attempts[log[i].name] = 1
        /\ fdata[log[i].name] = <<>>
    /\ calls = 0

\* C17: items are handled in input order, one at a time, and at most one file
\* handle is open: the reader only during the scan of the current item, the
\* writer only during function's call for the current item, none in between.
C17_OneHandleInOrder ==
    /\ Cardinality(handles) <= 1
    /\ pc = "scanning" => handles = {<<"reader", idx>>}
    /\ pc = "work" => handles = {<<"writer", idx>>}
    /\ pc \notin {"scanning", "work"} => handles = {}
    /\ Len(log) = idx - 1
    /\ \A i \in 1..Len(log) : log[i].name = items[i]
    /\ pc \in {"scan", "scanning", "open", "work"} => (idx <= Len(items) /\ cur = items[idx])

\* the writer of a resumed second item is open, after the first item failed
C17_Witness ==
    /\ pc = "work" /\ idx = 2 /\ resume /\ ~fresh
    /\ log[1].out = "TweepError"
    /\ handles = {<<"writer", 2>>}

\* ---- gen_chunks, under SpecChunks

\* the i-th sub-sequences of all chunks, concatenated
Rebuilt(i) == Flatten([k \in 1..Len(chunks) |-> chunks[k][i]])

\* C9: for size >= 1, the i-th sub-sequences of all chunks concatenate to the
\* i-th input, for every input.
C9_Lossless ==
    (gpc = "exhausted" /\ size >= 1) =>
        \A i \in 1..Len(iterables) : Rebuilt(i) = iterables[i]

\* two inputs, several chunks, one of them holding elements of both inputs
C9_Witness ==
    /\ gpc = "exhausted" /\ size >= 2
    /\ Len(iterables) = 2 /\ Len(chunks) >= 2
    /\ \E k \in 1..Len(chunks) : chunks[k][1] # <<>> /\ chunks[k][2] # <<>>
    /\ Len(iterables[1]) = 2 /\ iterables[1][1] # iterables[1][2]

Total == Len(Flatten(iterables))
ChunkLen(c) == Len(Flatten(c))

\* C10: for size >= 1 there are ceil(total / size) chunks (none for no
\* elements), each but the last of size elements, the last of total mod size
\* (size when that is 0).
C10_ChunkCount ==
    (gpc = "exhausted" /\ size >= 1) =>
        /\ Len(chunks) = (Total + size - 1) \div size
        /\ \A k \in 1..Len(chunks) - 1 : ChunkLen(chunks[k]) = size
        /\ Len(chunks) >= 1 =>
            ChunkLen(chunks[Len(chunks)]) = IF Total % size = 0 THEN size ELSE Total % size

\* several chunks, the last one short
C10_Witness ==
    /\ gpc = "exhausted" /\ size >= 2
    /\ Len(chunks) >= 2
    /\ Total % size # 0

\* C11 (as stated): with size <= 0 gen_chunks fails: the generator never ends
\* normally, as a (here empty) sequence of chunks.
C11_NonPositiveSizeIsError == size <= 0 => gpc # "exhausted"

\* number of elements in the inputs before input i
Offset(i) == Len(Flatten(SubSeq(iterables, 1, i - 1)))

\* the elements of input i whose 0-based position in the concatenation of all
\* inputs lies in [(k - 1) * size, k * size), in input order
InWindow(k, i) ==
    LET js == {j \in 1..Len(iterables[i]) :
                  /\ (k - 1) * size <= Offset(i) + j - 1
                  /\ Offset(i) + j - 1 < k * size}
        lo == CHOOSE j \in js : \A j2 \in js : j <= j2
    IN IF js = {} THEN <<>>
       ELSE [m \in 1..Cardinality(js) |-> iterables[i][lo + m - 1]]

\* C18: every chunk yielded has one sub-sequence per input, and the i-th
\* sub-sequence of the k-th chunk is exactly the part of input i that lies in
\* the k-th window of the concatenation of the inputs: nothing but input
\* elements (no padding), and an element that is None is kept.
C18_ChunkIsWindow ==
    \A k \in 1..Len(chunks) :
        /\ Len(chunks[k]) = Len(iterables)
        /\ \A i \in 1..Len(iterables) : chunks[k][i] = InWindow(k, i)

\* a short last chunk to which the first input contributes nothing, after a
\* chunk holding a None element
C18_Witness ==
    /\ gpc = "exhausted" /\ size >= 2
    /\ Len(iterables) = 2 /\ Len(chunks) >= 2
    /\ Total % size # 0
    /\ chunks[Len(chunks)][1] = <<>>
    /\ \E k \in 1..Len(chunks), i \in 1..2 : "None" \in Range(chunks[k][i])

====
